---- MODULE Spec2Model ----
(***************************************************************************)
(* Pxshot C++ SDK: the Client (construction, screenshot(), usage()) and    *)
(* the ScreenshotResult accessors of include/pxshot/pxshot.hpp, as a state *)
(* machine.  The HTTP transport (httplib) and the JSON library (nlohmann)  *)
(* are the environment: the transport's answer is an input of each call,   *)
(* and json::parse is the table JsonTexts over the sample bodies.          *)
(*                                                                         *)
(* Integers that come out of a JSON body are kept exact as base-2^31       *)
(* triples <<l2, l1, l0>> (value l2*2^62 + l1*2^31 + l0, 0 <= l1,l0 <      *)
(* 2^31), so that the narrowing of get<int>() and get<int64_t>() is        *)
(* computed on the bits and not assumed away.                              *)
(***************************************************************************)
EXTENDS Integers, Sequences, FiniteSets, TLC

\* Longest binary (non-JSON) response body the transport hands back.
MaxBodyLen == 2

-----------------------------------------------------------------------------
\* JSON values (nlohmann::json), one record shape for every kind.

Zero == <<0, 0, 0>>
One == <<0, 0, 1>>
NoMembers == << >>

JStr(s) == [t |-> "string", s |-> s, n |-> Zero, b |-> FALSE, m |-> NoMembers]
JNum(n) == [t |-> "number", s |-> "", n |-> n, b |-> FALSE, m |-> NoMembers]
JBool(b) == [t |-> "boolean", s |-> "", n |-> Zero, b |-> b, m |-> NoMembers]
JNull == [t |-> "null", s |-> "", n |-> Zero, b |-> FALSE, m |-> NoMembers]
JArr == [t |-> "array", s |-> "", n |-> Zero, b |-> FALSE, m |-> NoMembers]
JObj(m) == [t |-> "object", s |-> "", n |-> Zero, b |-> FALSE, m |-> m]

\* What a json::exception leaves in place of a value.
JThrown == [t |-> "exception", s |-> "", n |-> Zero, b |-> FALSE, m |-> NoMembers]

-----------------------------------------------------------------------------
\* Sample response bodies that are JSON texts, as octets, with the value
\* json::parse yields for each.

\* {"code":"quota_exceeded","message":"limit reached"}
TextErrQuota ==
    <<123,34,99,111,100,101,34,58,34,113,117,111,116,97,95,101,120,99,101,101,100,101,100,34,44,34,109,101,115,115,97,103,101,34,58,34,108,105,109,105,116,32,114,101,97,99,104,101,100,34,125>>
DocErrQuota ==
    JObj(("code" :> JStr("quota_exceeded")) @@ ("message" :> JStr("limit reached")))
\* {"message":"limit reached"}
TextErrNoCode ==
    <<123,34,109,101,115,115,97,103,101,34,58,34,108,105,109,105,116,32,114,101,97,99,104,101,100,34,125>>
DocErrNoCode ==
    JObj(("message" :> JStr("limit reached")))
\* {"code":"quota_exceeded"}
TextErrNoMessage ==
    <<123,34,99,111,100,101,34,58,34,113,117,111,116,97,95,101,120,99,101,101,100,101,100,34,125>>
DocErrNoMessage ==
    JObj(("code" :> JStr("quota_exceeded")))
\* {}
TextEmptyObject ==
    <<123,125>>
DocEmptyObject ==
    JObj(NoMembers)
\* {"code":402,"message":"limit reached"}
TextErrCodeNumber ==
    <<123,34,99,111,100,101,34,58,52,48,50,44,34,109,101,115,115,97,103,101,34,58,34,108,105,109,105,116,32,114,101,97,99,104,101,100,34,125>>
DocErrCodeNumber ==
    JObj(("code" :> JNum(<<0,0,402>>)) @@ ("message" :> JStr("limit reached")))
\* {"code":"quota_exceeded","message":null}
TextErrMessageNull ==
    <<123,34,99,111,100,101,34,58,34,113,117,111,116,97,95,101,120,99,101,101,100,101,100,34,44,34,109,101,115,115,97,103,101,34,58,110,117,108,108,125>>
DocErrMessageNull ==
    JObj(("code" :> JStr("quota_exceeded")) @@ ("message" :> JNull))
\* []
TextEmptyArray ==
    <<91,93>>
DocEmptyArray ==
    JArr
\* {"url":"https://x/y.png","expires_at":"2025-01-01T00:00:00Z","width":800,"height":600,"size_bytes":12345}
TextStored ==
    <<123,34,117,114,108,34,58,34,104,116,116,112,115,58,47,47,120,47,121,46,112,110,103,34,44,34,101,120,112,105,114,101,115,95,97,116,34,58,34,50,48,50,53,45,48,49,45,48,49,84,48,48,58,48,48,58,48,48,90,34,44,34,119,105,100,116,104,34,58,56,48,48,44,34,104,101,105,103,104,116,34,58,54,48,48,44,34,115,105,122,101,95,98,121,116,101,115,34,58,49,50,51,52,53,125>>
DocStored ==
    JObj(("url" :> JStr("https://x/y.png")) @@ ("expires_at" :> JStr("2025-01-01T00:00:00Z")) @@ ("width" :> JNum(<<0,0,800>>)) @@ ("height" :> JNum(<<0,0,600>>)) @@ ("size_bytes" :> JNum(<<0,0,12345>>)))
\* {"url":"https://x/y.png","expires_at":"2025-01-01T00:00:00Z","width":800,"height":600,"size_bytes":5000000000}
TextStoredBig ==
    <<123,34,117,114,108,34,58,34,104,116,116,112,115,58,47,47,120,47,121,46,112,110,103,34,44,34,101,120,112,105,114,101,115,95,97,116,34,58,34,50,48,50,53,45,48,49,45,48,49,84,48,48,58,48,48,58,48,48,90,34,44,34,119,105,100,116,104,34,58,56,48,48,44,34,104,101,105,103,104,116,34,58,54,48,48,44,34,115,105,122,101,95,98,121,116,101,115,34,58,53,48,48,48,48,48,48,48,48,48,125>>
DocStoredBig ==
    JObj(("url" :> JStr("https://x/y.png")) @@ ("expires_at" :> JStr("2025-01-01T00:00:00Z")) @@ ("width" :> JNum(<<0,0,800>>)) @@ ("height" :> JNum(<<0,0,600>>)) @@ ("size_bytes" :> JNum(<<0,2,705032704>>)))
\* {"url":"https://x/y.png","expires_at":"2025-01-01T00:00:00Z","width":4294968096,"height":600,"size_bytes":12345}
TextStoredWideWidth ==
    <<123,34,117,114,108,34,58,34,104,116,116,112,115,58,47,47,120,47,121,46,112,110,103,34,44,34,101,120,112,105,114,101,115,95,97,116,34,58,34,50,48,50,53,45,48,49,45,48,49,84,48,48,58,48,48,58,48,48,90,34,44,34,119,105,100,116,104,34,58,52,50,57,52,57,54,56,48,57,54,44,34,104,101,105,103,104,116,34,58,54,48,48,44,34,115,105,122,101,95,98,121,116,101,115,34,58,49,50,51,52,53,125>>
DocStoredWideWidth ==
    JObj(("url" :> JStr("https://x/y.png")) @@ ("expires_at" :> JStr("2025-01-01T00:00:00Z")) @@ ("width" :> JNum(<<0,2,800>>)) @@ ("height" :> JNum(<<0,0,600>>)) @@ ("size_bytes" :> JNum(<<0,0,12345>>)))
\* {"url":"https://x/y.png","expires_at":"2025-01-01T00:00:00Z","width":800,"height":600}
TextStoredNoSize ==
    <<123,34,117,114,108,34,58,34,104,116,116,112,115,58,47,47,120,47,121,46,112,110,103,34,44,34,101,120,112,105,114,101,115,95,97,116,34,58,34,50,48,50,53,45,48,49,45,48,49,84,48,48,58,48,48,58,48,48,90,34,44,34,119,105,100,116,104,34,58,56,48,48,44,34,104,101,105,103,104,116,34,58,54,48,48,125>>
DocStoredNoSize ==
    JObj(("url" :> JStr("https://x/y.png")) @@ ("expires_at" :> JStr("2025-01-01T00:00:00Z")) @@ ("width" :> JNum(<<0,0,800>>)) @@ ("height" :> JNum(<<0,0,600>>)))
\* {"url":"https://x/y.png","expires_at":"2025-01-01T00:00:00Z","width":"800","height":600,"size_bytes":12345}
TextStoredWidthString ==
    <<123,34,117,114,108,34,58,34,104,116,116,112,115,58,47,47,120,47,121,46,112,110,103,34,44,34,101,120,112,105,114,101,115,95,97,116,34,58,34,50,48,50,53,45,48,49,45,48,49,84,48,48,58,48,48,58,48,48,90,34,44,34,119,105,100,116,104,34,58,34,56,48,48,34,44,34,104,101,105,103,104,116,34,58,54,48,48,44,34,115,105,122,101,95,98,121,116,101,115,34,58,49,50,51,52,53,125>>
DocStoredWidthString ==
    JObj(("url" :> JStr("https://x/y.png")) @@ ("expires_at" :> JStr("2025-01-01T00:00:00Z")) @@ ("width" :> JStr("800")) @@ ("height" :> JNum(<<0,0,600>>)) @@ ("size_bytes" :> JNum(<<0,0,12345>>)))
\* {"url":"https://x/y.png","expires_at":"2025-01-01T00:00:00Z","width":800,"height":true,"size_bytes":12345}
TextStoredHeightBool ==
    <<123,34,117,114,108,34,58,34,104,116,116,112,115,58,47,47,120,47,121,46,112,110,103,34,44,34,101,120,112,105,114,101,115,95,97,116,34,58,34,50,48,50,53,45,48,49,45,48,49,84,48,48,58,48,48,58,48,48,90,34,44,34,119,105,100,116,104,34,58,56,48,48,44,34,104,101,105,103,104,116,34,58,116,114,117,101,44,34,115,105,122,101,95,98,121,116,101,115,34,58,49,50,51,52,53,125>>
DocStoredHeightBool ==
    JObj(("url" :> JStr("https://x/y.png")) @@ ("expires_at" :> JStr("2025-01-01T00:00:00Z")) @@ ("width" :> JNum(<<0,0,800>>)) @@ ("height" :> JBool(TRUE)) @@ ("size_bytes" :> JNum(<<0,0,12345>>)))
\* {"screenshots_taken":42,"screenshots_limit":1000,"storage_bytes_used":1048576,"storage_bytes_limit":1073741824,"period_start":"2025-01-01T00:00:00Z","period_end":"2025-02-01T00:00:00Z"}
TextUsageOk ==
    <<123,34,115,99,114,101,101,110,115,104,111,116,115,95,116,97,107,101,110,34,58,52,50,44,34,115,99,114,101,101,110,115,104,111,116,115,95,108,105,109,105,116,34,58,49,48,48,48,44,34,115,116,111,114,97,103,101,95,98,121,116,101,115,95,117,115,101,100,34,58,49,48,52,56,53,55,54,44,34,115,116,111,114,97,103,101,95,98,121,116,101,115,95,108,105,109,105,116,34,58,49,48,55,51,55,52,49,56,50,52,44,34,112,101,114,105,111,100,95,115,116,97,114,116,34,58,34,50,48,50,53,45,48,49,45,48,49,84,48,48,58,48,48,58,48,48,90,34,44,34,112,101,114,105,111,100,95,101,110,100,34,58,34,50,48,50,53,45,48,50,45,48,49,84,48,48,58,48,48,58,48,48,90,34,125>>
DocUsageOk ==
    JObj(("screenshots_taken" :> JNum(<<0,0,42>>)) @@ ("screenshots_limit" :> JNum(<<0,0,1000>>)) @@ ("storage_bytes_used" :> JNum(<<0,0,1048576>>)) @@ ("storage_bytes_limit" :> JNum(<<0,0,1073741824>>)) @@ ("period_start" :> JStr("2025-01-01T00:00:00Z")) @@ ("period_end" :> JStr("2025-02-01T00:00:00Z")))
\* {"screenshots_taken":42,"screenshots_limit":1000,"storage_bytes_used":3000000000,"storage_bytes_limit":5000000000,"period_start":"2025-01-01T00:00:00Z","period_end":"2025-02-01T00:00:00Z"}
TextUsageBigStorage ==
    <<123,34,115,99,114,101,101,110,115,104,111,116,115,95,116,97,107,101,110,34,58,52,50,44,34,115,99,114,101,101,110,115,104,111,116,115,95,108,105,109,105,116,34,58,49,48,48,48,44,34,115,116,111,114,97,103,101,95,98,121,116,101,115,95,117,115,101,100,34,58,51,48,48,48,48,48,48,48,48,48,44,34,115,116,111,114,97,103,101,95,98,121,116,101,115,95,108,105,109,105,116,34,58,53,48,48,48,48,48,48,48,48,48,44,34,112,101,114,105,111,100,95,115,116,97,114,116,34,58,34,50,48,50,53,45,48,49,45,48,49,84,48,48,58,48,48,58,48,48,90,34,44,34,112,101,114,105,111,100,95,101,110,100,34,58,34,50,48,50,53,45,48,50,45,48,49,84,48,48,58,48,48,58,48,48,90,34,125>>
DocUsageBigStorage ==
    JObj(("screenshots_taken" :> JNum(<<0,0,42>>)) @@ ("screenshots_limit" :> JNum(<<0,0,1000>>)) @@ ("storage_bytes_used" :> JNum(<<0,1,852516352>>)) @@ ("storage_bytes_limit" :> JNum(<<0,2,705032704>>)) @@ ("period_start" :> JStr("2025-01-01T00:00:00Z")) @@ ("period_end" :> JStr("2025-02-01T00:00:00Z")))
\* {"screenshots_taken":42,"screenshots_limit":1000,"storage_bytes_used":1048576,"storage_bytes_limit":1073741824,"period_start":"2025-01-01T00:00:00Z"}
TextUsageNoPeriodEnd ==
    <<123,34,115,99,114,101,101,110,115,104,111,116,115,95,116,97,107,101,110,34,58,52,50,44,34,115,99,114,101,101,110,115,104,111,116,115,95,108,105,109,105,116,34,58,49,48,48,48,44,34,115,116,111,114,97,103,101,95,98,121,116,101,115,95,117,115,101,100,34,58,49,48,52,56,53,55,54,44,34,115,116,111,114,97,103,101,95,98,121,116,101,115,95,108,105,109,105,116,34,58,49,48,55,51,55,52,49,56,50,52,44,34,112,101,114,105,111,100,95,115,116,97,114,116,34,58,34,50,48,50,53,45,48,49,45,48,49,84,48,48,58,48,48,58,48,48,90,34,125>>
DocUsageNoPeriodEnd ==
    JObj(("screenshots_taken" :> JNum(<<0,0,42>>)) @@ ("screenshots_limit" :> JNum(<<0,0,1000>>)) @@ ("storage_bytes_used" :> JNum(<<0,0,1048576>>)) @@ ("storage_bytes_limit" :> JNum(<<0,0,1073741824>>)) @@ ("period_start" :> JStr("2025-01-01T00:00:00Z")))
\* {"screenshots_taken":"42","screenshots_limit":1000,"storage_bytes_used":1048576,"storage_bytes_limit":1073741824,"period_start":"2025-01-01T00:00:00Z","period_end":"2025-02-01T00:00:00Z"}
TextUsageTakenString ==
    <<123,34,115,99,114,101,101,110,115,104,111,116,115,95,116,97,107,101,110,34,58,34,52,50,34,44,34,115,99,114,101,101,110,115,104,111,116,115,95,108,105,109,105,116,34,58,49,48,48,48,44,34,115,116,111,114,97,103,101,95,98,121,116,101,115,95,117,115,101,100,34,58,49,48,52,56,53,55,54,44,34,115,116,111,114,97,103,101,95,98,121,116,101,115,95,108,105,109,105,116,34,58,49,48,55,51,55,52,49,56,50,52,44,34,112,101,114,105,111,100,95,115,116,97,114,116,34,58,34,50,48,50,53,45,48,49,45,48,49,84,48,48,58,48,48,58,48,48,90,34,44,34,112,101,114,105,111,100,95,101,110,100,34,58,34,50,48,50,53,45,48,50,45,48,49,84,48,48,58,48,48,58,48,48,90,34,125>>
DocUsageTakenString ==
    JObj(("screenshots_taken" :> JStr("42")) @@ ("screenshots_limit" :> JNum(<<0,0,1000>>)) @@ ("storage_bytes_used" :> JNum(<<0,0,1048576>>)) @@ ("storage_bytes_limit" :> JNum(<<0,0,1073741824>>)) @@ ("period_start" :> JStr("2025-01-01T00:00:00Z")) @@ ("period_end" :> JStr("2025-02-01T00:00:00Z")))
\* {"screenshots_taken":42,"screenshots_limit":true,"storage_bytes_used":1048576,"storage_bytes_limit":1073741824,"period_start":"2025-01-01T00:00:00Z","period_end":"2025-02-01T00:00:00Z"}
TextUsageLimitBool ==
    <<123,34,115,99,114,101,101,110,115,104,111,116,115,95,116,97,107,101,110,34,58,52,50,44,34,115,99,114,101,101,110,115,104,111,116,115,95,108,105,109,105,116,34,58,116,114,117,101,44,34,115,116,111,114,97,103,101,95,98,121,116,101,115,95,117,115,101,100,34,58,49,48,52,56,53,55,54,44,34,115,116,111,114,97,103,101,95,98,121,116,101,115,95,108,105,109,105,116,34,58,49,48,55,51,55,52,49,56,50,52,44,34,112,101,114,105,111,100,95,115,116,97,114,116,34,58,34,50,48,50,53,45,48,49,45,48,49,84,48,48,58,48,48,58,48,48,90,34,44,34,112,101,114,105,111,100,95,101,110,100,34,58,34,50,48,50,53,45,48,50,45,48,49,84,48,48,58,48,48,58,48,48,90,34,125>>
DocUsageLimitBool ==
    JObj(("screenshots_taken" :> JNum(<<0,0,42>>)) @@ ("screenshots_limit" :> JBool(TRUE)) @@ ("storage_bytes_used" :> JNum(<<0,0,1048576>>)) @@ ("storage_bytes_limit" :> JNum(<<0,0,1073741824>>)) @@ ("period_start" :> JStr("2025-01-01T00:00:00Z")) @@ ("period_end" :> JStr("2025-02-01T00:00:00Z")))
ErrorTexts ==
    {TextErrQuota, TextErrNoCode, TextErrNoMessage, TextEmptyObject, TextErrCodeNumber, TextErrMessageNull, TextEmptyArray}
StoredTexts ==
    {TextStored, TextStoredBig, TextStoredWideWidth, TextStoredNoSize, TextStoredWidthString, TextStoredHeightBool}
UsageTexts ==
    {TextUsageOk, TextUsageBigStorage, TextUsageNoPeriodEnd, TextUsageTakenString, TextUsageLimitBool}
JsonTexts ==
    (TextErrQuota :> DocErrQuota) @@
    (TextErrNoCode :> DocErrNoCode) @@
    (TextErrNoMessage :> DocErrNoMessage) @@
    (TextEmptyObject :> DocEmptyObject) @@
    (TextErrCodeNumber :> DocErrCodeNumber) @@
    (TextErrMessageNull :> DocErrMessageNull) @@
    (TextEmptyArray :> DocEmptyArray) @@
    (TextStored :> DocStored) @@
    (TextStoredBig :> DocStoredBig) @@
    (TextStoredWideWidth :> DocStoredWideWidth) @@
    (TextStoredNoSize :> DocStoredNoSize) @@
    (TextStoredWidthString :> DocStoredWidthString) @@
    (TextStoredHeightBool :> DocStoredHeightBool) @@
    (TextUsageOk :> DocUsageOk) @@
    (TextUsageBigStorage :> DocUsageBigStorage) @@
    (TextUsageNoPeriodEnd :> DocUsageNoPeriodEnd) @@
    (TextUsageTakenString :> DocUsageTakenString) @@
    (TextUsageLimitBool :> DocUsageLimitBool)

\* Header values, as characters.
\* "application/json"
ApplicationJson ==
    <<97,112,112,108,105,99,97,116,105,111,110,47,106,115,111,110>>
\* "image/png"
CtImagePng ==
    <<105,109,97,103,101,47,112,110,103>>
\* "application/json; charset=utf-8"
CtJsonCharset ==
    <<97,112,112,108,105,99,97,116,105,111,110,47,106,115,111,110,59,32,99,104,97,114,115,101,116,61,117,116,102,45,56>>
\* "Application/JSON"
CtJsonUpper ==
    <<65,112,112,108,105,99,97,116,105,111,110,47,74,83,79,78>>


\* json::parse.  Every other sample body is a sequence over ByteSamples,
\* which no JSON text can begin with, and so is a parse_error.
JsonParse(text) ==
    IF text \in DOMAIN JsonTexts THEN JsonTexts[text] ELSE JThrown

\* basic_json::at(key): type_error on a non-object, out_of_range on a
\* missing key.
JAt(j, key) ==
    IF j.t = "object" /\ key \in DOMAIN j.m THEN j.m[key] ELSE JThrown

\* static_cast<int>: the low 32 bits, two's complement.
Int32Of(n) ==
    IF n[2] % 2 = 1 THEN <<-1, 2147483647, n[3]>> ELSE <<0, 0, n[3]>>

\* static_cast<int64_t>: the low 64 bits, two's complement.
Int64Of(n) ==
    <<((n[1] + 2) % 4) - 2, n[2], n[3]>>

\* get<std::string>(): only a JSON string converts.
GetString(v) ==
    IF v.t = "string" THEN [threw |-> FALSE, s |-> v.s]
    ELSE [threw |-> TRUE, s |-> ""]

\* get<int>(): numbers and booleans convert by static_cast, anything else
\* is a type_error.
GetInt(v) ==
    IF v.t = "number" THEN [threw |-> FALSE, n |-> Int32Of(v.n)]
    ELSE IF v.t = "boolean"
         THEN [threw |-> FALSE, n |-> IF v.b THEN One ELSE Zero]
         ELSE [threw |-> TRUE, n |-> Zero]

\* get<int64_t>().
GetInt64(v) ==
    IF v.t = "number" THEN [threw |-> FALSE, n |-> Int64Of(v.n)]
    ELSE IF v.t = "boolean"
         THEN [threw |-> FALSE, n |-> IF v.b THEN One ELSE Zero]
         ELSE [threw |-> TRUE, n |-> Zero]

\* basic_json::value(key, default) read as std::string: type_error on a
\* non-object, the default when the key is absent, get<std::string>() of
\* the member when it is present.
JValueString(j, key, default) ==
    IF j.t # "object" THEN [threw |-> TRUE, s |-> "", defaulted |-> FALSE]
    ELSE IF key \notin DOMAIN j.m
         THEN [threw |-> FALSE, s |-> default, defaulted |-> TRUE]
         ELSE [threw |-> GetString(j.m[key]).threw,
               s |-> GetString(j.m[key]).s, defaulted |-> FALSE]

\* std::string::find(needle) != npos.
Contains(hay, needle) ==
    \E i \in 1..(Len(hay) - Len(needle) + 1) :
        SubSeq(hay, i, i + Len(needle) - 1) = needle

\* A char of std::string (signed) holding an octet, and its conversion to
\* uint8_t.
CharOf(octet) == IF octet >= 128 THEN octet - 256 ELSE octet
Uint8Of(c) == c % 256

-----------------------------------------------------------------------------
\* Exceptions and other outcomes of an operation.

VERSION == "1.0.0"

NoWhat == [s |-> "", raw |-> << >>]
Returned ==
    [kind |-> "ok", status_code |-> 0, error_code |-> "", what |-> NoWhat]
NoOutcome ==
    [kind |-> "none", status_code |-> 0, error_code |-> "", what |-> NoWhat]
Error(message) ==
    [kind |-> "Error", status_code |-> 0, error_code |-> "",
     what |-> [s |-> message, raw |-> << >>]]
HttpError(code, message) ==
    [kind |-> "HttpError", status_code |-> code, error_code |-> "",
     what |-> [s |-> message, raw |-> << >>]]
ApiError(code, message) ==
    [kind |-> "ApiError", status_code |-> 0, error_code |-> code,
     what |-> message]
ValidationError(message) ==
    [kind |-> "ValidationError", status_code |-> 0, error_code |-> "",
     what |-> [s |-> message, raw |-> << >>]]

-----------------------------------------------------------------------------
\* Types.

NoInt == [has |-> FALSE, v |-> 0]
OptInt(v) == [has |-> TRUE, v |-> v]
NoBool == [has |-> FALSE, v |-> FALSE]
OptBool(v) == [has |-> TRUE, v |-> v]
NoString == [has |-> FALSE, v |-> ""]
OptString(v) == [has |-> TRUE, v |-> v]

\* The fields of ScreenshotOptions that screenshot() branches on.
ScreenshotOptions(url, quality, width, height, store) ==
    [url |-> url, quality |-> quality, width |-> width, height |-> height,
     store |-> store]
NoOptions == ScreenshotOptions("", NoInt, NoInt, NoInt, NoBool)

StoredScreenshot(url, expires_at, width, height, size_bytes) ==
    [url |-> url, expires_at |-> expires_at, width |-> width,
     height |-> height, size_bytes |-> size_bytes]
NoStoredScreenshot == StoredScreenshot("", "", Zero, Zero, Zero)

\* ScreenshotResult(std::vector<uint8_t>) and ScreenshotResult(StoredScreenshot).
ResultOfBytes(data) ==
    [exists |-> TRUE, bytes_ |-> data,
     stored_ |-> [has |-> FALSE, v |-> NoStoredScreenshot]]
ResultOfStored(info) ==
    [exists |-> TRUE, bytes_ |-> << >>, stored_ |-> [has |-> TRUE, v |-> info]]
NoResult ==
    [exists |-> FALSE, bytes_ |-> << >>,
     stored_ |-> [has |-> FALSE, v |-> NoStoredScreenshot]]

Usage(taken, limit, used, bytes_limit, period_start, period_end) ==
    [screenshots_taken |-> taken, screenshots_limit |-> limit,
     storage_bytes_used |-> used, storage_bytes_limit |-> bytes_limit,
     period_start |-> period_start, period_end |-> period_end]
NoUsage == Usage(Zero, Zero, Zero, Zero, "", "")

DefaultBaseUrl == "https://api.pxshot.com"
DefaultTimeout == 60
ClientConfig(api_key, base_url, timeout_seconds, user_agent) ==
    [api_key |-> api_key, base_url |-> base_url,
     timeout_seconds |-> timeout_seconds, user_agent |-> user_agent]
NoConfig == ClientConfig("", "", 0, NoString)

\* What the transport hands back: a failure (no response), or a response.
NoRes ==
    [asked |-> FALSE, ok |-> FALSE, error |-> "", status |-> 0,
     content_type |-> << >>, body |-> << >>]
Failure(error) ==
    [asked |-> TRUE, ok |-> FALSE, error |-> error, status |-> 0,
     content_type |-> << >>, body |-> << >>]
Response(status, content_type, body) ==
    [asked |-> TRUE, ok |-> TRUE, error |-> "", status |-> status,
     content_type |-> content_type, body |-> body]

-----------------------------------------------------------------------------
\* Client::Impl.

NoImpl ==
    [config |-> NoConfig,
     http |-> [made |-> FALSE, base |-> "", connection_timeout |-> 0,
               read_timeout |-> 0, write_timeout |-> 0,
               follow_location |-> FALSE]]

Impl(cfg) ==
    [config |-> cfg,
     http |-> [made |-> TRUE, base |-> cfg.base_url,
               connection_timeout |-> cfg.timeout_seconds,
               read_timeout |-> cfg.timeout_seconds,
               write_timeout |-> cfg.timeout_seconds,
               follow_location |-> TRUE]]

make_headers(impl, json_content) ==
    [Authorization |-> "Bearer " \o impl.config.api_key,
     ContentType |-> IF json_content THEN "application/json" ELSE "",
     UserAgent |-> IF impl.config.user_agent.has
                   THEN impl.config.user_agent.v
                   ELSE "pxshot-cpp/" \o VERSION]

\* check_response with the handler widened to catch (...): the ApiError
\* thrown inside the try block is caught and replaced.
check_response_CatchAll(res, context) ==
    IF ~res.ok
    THEN HttpError(0, context \o ": " \o res.error)
    ELSE IF res.status >= 400
         THEN HttpError(res.status,
                        context \o ": HTTP " \o ToString(res.status))
         ELSE Returned

\* check_response with the status left out of the HttpError it degrades to.
check_response_StatusDropped(res, context) ==
    IF ~res.ok
    THEN HttpError(0, context \o ": " \o res.error)
    ELSE IF res.status >= 400
         THEN LET body == JsonParse(res.body)
                  code == JValueString(body, "code", "unknown")
                  message == JValueString(body, "message", "")
                  caught == HttpError(0, context \o ": HTTP error")
              IN  IF body.t = "exception" THEN caught
                  ELSE IF code.threw THEN caught
                  ELSE IF message.threw THEN caught
                  ELSE ApiError(code.s,
                           IF message.defaulted
                           THEN [s |-> "", raw |-> res.body]
                           ELSE [s |-> message.s, raw |-> << >>])
         ELSE Returned

\* check_response without the test for a failed exchange.
check_response_NoFailureCheck(res, context) ==
    IF res.status >= 400
    THEN LET body == JsonParse(res.body)
             code == JValueString(body, "code", "unknown")
             message == JValueString(body, "message", "")
             caught == HttpError(res.status,
                           context \o ": HTTP " \o ToString(res.status))
         IN  IF body.t = "exception" THEN caught
             ELSE IF code.threw THEN caught
             ELSE IF message.threw THEN caught
             ELSE ApiError(code.s,
                      IF message.defaulted
                      THEN [s |-> "", raw |-> res.body]
                      ELSE [s |-> message.s, raw |-> << >>])
    ELSE Returned

\* Returned when nothing is thrown, else the exception that leaves
\* check_response.  ApiError is thrown inside the try block but is not a
\* json::exception, so the handler does not catch it.
check_response(res, context) ==
    IF ~res.ok
    THEN HttpError(0, context \o ": " \o res.error)
    ELSE IF res.status >= 400
         THEN LET body == JsonParse(res.body)
                  code == JValueString(body, "code", "unknown")
                  message == JValueString(body, "message", "")
                  caught == HttpError(res.status,
                                context \o ": HTTP " \o ToString(res.status))
              IN  IF body.t = "exception" THEN caught
                  ELSE IF code.threw THEN caught
                  ELSE IF message.threw THEN caught
                  ELSE ApiError(code.s,
                           IF message.defaulted
                           THEN [s |-> "", raw |-> res.body]
                           ELSE [s |-> message.s, raw |-> << >>])
         ELSE Returned

-----------------------------------------------------------------------------
\* Client construction.

\* The constructor without the test of the key.
ClientFromConfig_NoKeyCheck(config) ==
    [outcome |-> Returned, constructed |-> TRUE, impl_ |-> Impl(config)]

ClientFromConfig(config) ==
    IF config.api_key = ""
    THEN [outcome |-> ValidationError("API key is required"),
          constructed |-> FALSE, impl_ |-> NoImpl]
    ELSE [outcome |-> Returned, constructed |-> TRUE, impl_ |-> Impl(config)]

ClientFromKey(api_key) ==
    ClientFromConfig(ClientConfig(api_key, DefaultBaseUrl, DefaultTimeout,
                                  NoString))

-----------------------------------------------------------------------------
\* Client::screenshot.

\* The validation block with the upper bound of quality off by one.
screenshot_validate_QualityBelow100(options) ==
    IF options.url = ""
    THEN ValidationError("URL is required")
    ELSE IF options.quality.has
            /\ (options.quality.v < 0 \/ options.quality.v >= 100)
    THEN ValidationError("Quality must be between 0 and 100")
    ELSE IF options.width.has /\ options.width.v <= 0
    THEN ValidationError("Width must be positive")
    ELSE IF options.height.has /\ options.height.v <= 0
    THEN ValidationError("Height must be positive")
    ELSE Returned

\* The validation block: the exception it throws, or Returned.
screenshot_validate(options) ==
    IF options.url = ""
    THEN ValidationError("URL is required")
    ELSE IF options.quality.has
            /\ (options.quality.v < 0 \/ options.quality.v > 100)
    THEN ValidationError("Quality must be between 0 and 100")
    ELSE IF options.width.has /\ options.width.v <= 0
    THEN ValidationError("Width must be positive")
    ELSE IF options.height.has /\ options.height.v <= 0
    THEN ValidationError("Height must be positive")
    ELSE Returned

\* The request body: url, and each optional field that is present.
screenshot_body(options) ==
    JObj(("url" :> JStr(options.url))
         @@ (IF options.quality.has
             THEN ("quality" :> JNum(<<0, 0, options.quality.v>>))
             ELSE NoMembers)
         @@ (IF options.width.has
             THEN ("width" :> JNum(<<0, 0, options.width.v>>))
             ELSE NoMembers)
         @@ (IF options.height.has
             THEN ("height" :> JNum(<<0, 0, options.height.v>>))
             ELSE NoMembers)
         @@ (IF options.store.has
             THEN ("store" :> JBool(options.store.v))
             ELSE NoMembers))

NoJson == JNull
Request(method, path, headers, body) ==
    [method |-> method, path |-> path, headers |-> headers, body |-> body]

\* The interpretation of a response that passed check_response: the
\* stored variant, the bytes variant, or the generic Error.
screenshot_result(options, res) ==
    LET store_mode == IF options.store.has THEN options.store.v ELSE FALSE
        content_type == res.content_type
        is_json == Contains(content_type, ApplicationJson)
    IN  IF store_mode \/ is_json
        THEN LET response == JsonParse(res.body)
                 s_url == GetString(JAt(response, "url"))
                 s_expires_at == GetString(JAt(response, "expires_at"))
                 s_width == GetInt(JAt(response, "width"))
                 s_height == GetInt(JAt(response, "height"))
                 s_size_bytes == GetInt64(JAt(response, "size_bytes"))
             IN  IF \/ s_url.threw \/ s_expires_at.threw \/ s_width.threw
                    \/ s_height.threw \/ s_size_bytes.threw
                 THEN [outcome |->
                          Error("Failed to parse stored screenshot response"),
                       result |-> NoResult]
                 ELSE [outcome |-> Returned,
                       result |-> ResultOfStored(
                           StoredScreenshot(s_url.s, s_expires_at.s,
                               s_width.n, s_height.n, s_size_bytes.n))]
        ELSE [outcome |-> Returned,
              result |-> ResultOfBytes(
                  [i \in 1..Len(res.body) |-> Uint8Of(CharOf(res.body[i]))])]

\* The call with the request issued before the options are validated.
screenshot_PostBeforeValidate(impl_, options, res) ==
    LET invalid == screenshot_validate(options)
        request == Request("POST", "/v1/screenshot",
                           make_headers(impl_, TRUE), screenshot_body(options))
        checked == check_response(res, "Screenshot request failed")
    IN  IF invalid.kind # "ok"
        THEN [outcome |-> invalid, sent |-> <<request>>, res |-> res,
              result |-> NoResult]
        ELSE IF checked.kind # "ok"
        THEN [outcome |-> checked, sent |-> <<request>>, res |-> res,
              result |-> NoResult]
        ELSE [outcome |-> screenshot_result(options, res).outcome,
              sent |-> <<request>>, res |-> res,
              result |-> screenshot_result(options, res).result]

\* The whole call, given the answer res the transport has for a request:
\* the outcome, the requests issued, and the result returned.
screenshot(impl_, options, res) ==
    LET invalid == screenshot_validate(options)
        request == Request("POST", "/v1/screenshot",
                           make_headers(impl_, TRUE), screenshot_body(options))
        checked == check_response(res, "Screenshot request failed")
    IN  IF invalid.kind # "ok"
        THEN [outcome |-> invalid, sent |-> << >>, res |-> NoRes,
              result |-> NoResult]
        ELSE IF checked.kind # "ok"
        THEN [outcome |-> checked, sent |-> <<request>>, res |-> res,
              result |-> NoResult]
        ELSE [outcome |-> screenshot_result(options, res).outcome,
              sent |-> <<request>>, res |-> res,
              result |-> screenshot_result(options, res).result]

-----------------------------------------------------------------------------
\* Client::usage.

usage_result(res) ==
    LET response == JsonParse(res.body)
        taken == GetInt(JAt(response, "screenshots_taken"))
        limit == GetInt(JAt(response, "screenshots_limit"))
        used == GetInt(JAt(response, "storage_bytes_used"))
        bytes_limit == GetInt(JAt(response, "storage_bytes_limit"))
        period_start == GetString(JAt(response, "period_start"))
        period_end == GetString(JAt(response, "period_end"))
    IN  IF \/ taken.threw \/ limit.threw \/ used.threw \/ bytes_limit.threw
           \/ period_start.threw \/ period_end.threw
        THEN [outcome |-> Error("Failed to parse usage response"),
              value |-> NoUsage]
        ELSE [outcome |-> Returned,
              value |-> Usage(taken.n, limit.n, used.n, bytes_limit.n,
                              period_start.s, period_end.s)]

\* usage() with the request issued again when the first exchange fails.
usage_RetryOnFailure(impl_, res) ==
    LET request == Request("GET", "/v1/usage", make_headers(impl_, FALSE),
                           NoJson)
        checked == check_response(res, "Usage request failed")
    IN  IF checked.kind # "ok"
        THEN [outcome |-> checked, sent |-> <<request, request>>, res |-> res,
              value |-> NoUsage]
        ELSE [outcome |-> usage_result(res).outcome, sent |-> <<request>>,
              res |-> res, value |-> usage_result(res).value]

usage(impl_, res) ==
    LET request == Request("GET", "/v1/usage", make_headers(impl_, FALSE),
                           NoJson)
        checked == check_response(res, "Usage request failed")
    IN  IF checked.kind # "ok"
        THEN [outcome |-> checked, sent |-> <<request>>, res |-> res,
              value |-> NoUsage]
        ELSE [outcome |-> usage_result(res).outcome, sent |-> <<request>>,
              res |-> res, value |-> usage_result(res).value]

base_url(impl_) == impl_.config.base_url

-----------------------------------------------------------------------------
\* ScreenshotResult accessors: the value returned, or threw (the generic
\* Error); take_bytes also gives the object as it is left.

is_stored(self) == self.stored_.has
is_bytes(self) == self.bytes_ # << >>

stored(self) ==
    IF ~self.stored_.has
    THEN [threw |-> TRUE, v |-> NoStoredScreenshot,
          what |-> "Screenshot was not stored - use bytes() instead"]
    ELSE [threw |-> FALSE, v |-> self.stored_.v, what |-> ""]

\* bytes() without the test of the variant.
bytes_NoVariantCheck(self) ==
    [threw |-> FALSE, v |-> self.bytes_, what |-> ""]

bytes(self) ==
    IF self.stored_.has
    THEN [threw |-> TRUE, v |-> << >>,
          what |-> "Screenshot was stored - use stored() instead"]
    ELSE [threw |-> FALSE, v |-> self.bytes_, what |-> ""]

\* take_bytes() returning a copy, bytes_ left as it was.
take_bytes_CopiesOut(self) ==
    IF self.stored_.has
    THEN [threw |-> TRUE, v |-> << >>, self |-> self,
          what |-> "Screenshot was stored - use stored() instead"]
    ELSE [threw |-> FALSE, v |-> self.bytes_, self |-> self, what |-> ""]

\* The returned vector is move-constructed from bytes_, which is left empty.
take_bytes(self) ==
    IF self.stored_.has
    THEN [threw |-> TRUE, v |-> << >>, self |-> self,
          what |-> "Screenshot was stored - use stored() instead"]
    ELSE [threw |-> FALSE, v |-> self.bytes_,
          self |-> [self EXCEPT !.bytes_ = << >>], what |-> ""]

url(self) ==
    [threw |-> stored(self).threw, v |-> stored(self).v.url,
     what |-> stored(self).what]
expires_at(self) ==
    [threw |-> stored(self).threw, v |-> stored(self).v.expires_at,
     what |-> stored(self).what]
width(self) ==
    [threw |-> stored(self).threw, v |-> stored(self).v.width,
     what |-> stored(self).what]
height(self) ==
    [threw |-> stored(self).threw, v |-> stored(self).v.height,
     what |-> stored(self).what]
size_bytes(self) ==
    [threw |-> stored(self).threw, v |-> stored(self).v.size_bytes,
     what |-> stored(self).what]

-----------------------------------------------------------------------------
\* Inputs.

ApiKeySamples == {"", "px_key"}
ConfigSamples ==
    {ClientConfig(k, "http://localhost:8080", 120, OptString("MyApp/1.0")) :
        k \in ApiKeySamples}

UrlSamples == {"", "https://example.com"}
QualitySamples == {NoInt} \cup {OptInt(q) : q \in {-1, 0, 100, 101}}
SizeSamples == {NoInt} \cup {OptInt(n) : n \in {0, 1}}
StoreSamples == {NoBool, OptBool(FALSE), OptBool(TRUE)}

\* Options that differ in what decides the shape of the result.
OptionsSamples ==
    {ScreenshotOptions(u, NoInt, NoInt, NoInt, s) :
        u \in UrlSamples, s \in StoreSamples}
\* Options that differ in what validation looks at.
OptionsGrid ==
    {ScreenshotOptions(u, q, w, h, s) :
        u \in UrlSamples, q \in QualitySamples, w \in SizeSamples,
        h \in SizeSamples, s \in StoreSamples}

\* 'P' and 0x89, the octets a PNG starts with; neither begins a JSON text.
ByteSamples == {80, 137}
BinaryBodies ==
    UNION {[1..n -> ByteSamples] : n \in 0..MaxBodyLen}
StatusSamples == {200, 399, 400, 402, 500}
ContentTypeSamples == {<< >>, CtImagePng, CtJsonCharset, CtJsonUpper}
\* httplib::to_string(res.error()), by the name of the httplib::Error.
Failures == {Failure(e) : e \in {"Connection", "Read"}}

\* What a transport may answer to a request.
Answers ==
    Failures
    \cup {Response(s, c, b) :
            s \in StatusSamples, c \in ContentTypeSamples,
            b \in BinaryBodies \cup DOMAIN JsonTexts}
\* A few answers, for the runs that vary the options.
FewAnswers ==
    {Failure("Connection"), Response(200, CtImagePng, <<137, 80>>),
     Response(200, CtJsonCharset, TextStored),
     Response(402, CtJsonCharset, TextErrQuota)}

-----------------------------------------------------------------------------
\* State.

VARIABLES
    wire,        \* what the transport answers to a request
    client,      \* the Client object: constructed, and its impl_
    transports,  \* httplib::Client instances created so far
    result,      \* the ScreenshotResult the caller holds
    ret,         \* the value the last operation returned
    sent,        \* the requests the last operation issued
    last         \* the last operation: its name, inputs and outcome

vars == <<wire, client, transports, result, ret, sent, last>>

NoRet ==
    [kind |-> "none", b |-> FALSE, bytes |-> << >>,
     stored |-> NoStoredScreenshot, s |-> "", n |-> Zero, usage |-> NoUsage]

Last(op, config, options, res, outcome) ==
    [op |-> op, config |-> config, options |-> options, res |-> res,
     outcome |-> outcome]

InitWith(answers) ==
    /\ wire \in answers
    /\ client = [constructed |-> FALSE, impl_ |-> NoImpl]
    /\ transports = 0
    /\ result = NoResult
    /\ ret = NoRet
    /\ sent = << >>
    /\ last = Last("none", NoConfig, NoOptions, NoRes, NoOutcome)

Init == InitWith(Answers)

\* The server, or the network, starts to answer differently.
Serve ==
    /\ wire' \in FewAnswers
    /\ wire' # wire
    /\ UNCHANGED <<client, transports, result, ret, sent, last>>

\* Client client(api_key) / Client client(config): a constructor that
\* throws leaves no object behind.
Construct(op, config, made) ==
    /\ ~client.constructed
    /\ client' = [constructed |-> made.constructed, impl_ |-> made.impl_]
    /\ transports' = IF made.impl_.http.made THEN transports + 1
                     ELSE transports
    /\ last' = Last(op, config, NoOptions, NoRes, made.outcome)
    /\ sent' = << >>
    /\ ret' = NoRet
    /\ UNCHANGED <<wire, result>>

NewClientFromKey ==
    \E k \in ApiKeySamples :
        Construct("Client(api_key)",
                  ClientConfig(k, DefaultBaseUrl, DefaultTimeout, NoString),
                  ClientFromKey(k))

NewClientFromConfig ==
    \E c \in ConfigSamples :
        Construct("Client(config)", c, ClientFromConfig(c))

\* auto result = client.screenshot(options);
ScreenshotWith(Options) ==
    \E options \in Options :
        LET call == screenshot(client.impl_, options, wire) IN
        /\ client.constructed
        /\ last' = Last("screenshot", NoConfig, options, call.res,
                        call.outcome)
        /\ sent' = call.sent
        /\ result' = call.result
        /\ ret' = NoRet
        /\ UNCHANGED <<wire, client, transports>>

Screenshot == ScreenshotWith(OptionsSamples)

\* usage() with make_headers moving the User-Agent out of the configuration.
GetUsage_ConsumesUserAgent ==
    LET call == usage(client.impl_, wire) IN
    /\ client.constructed
    /\ last' = Last("usage", NoConfig, NoOptions, call.res, call.outcome)
    /\ sent' = call.sent
    /\ ret' = [NoRet EXCEPT !.kind = IF call.outcome.kind = "ok"
                                     THEN "usage" ELSE "none",
                            !.usage = call.value]
    /\ client' = [client EXCEPT !.impl_.config.user_agent = OptString("")]
    /\ UNCHANGED <<wire, transports, result>>

\* auto usage = client.usage();
GetUsage ==
    LET call == usage(client.impl_, wire) IN
    /\ client.constructed
    /\ last' = Last("usage", NoConfig, NoOptions, call.res, call.outcome)
    /\ sent' = call.sent
    /\ ret' = [NoRet EXCEPT !.kind = IF call.outcome.kind = "ok"
                                     THEN "usage" ELSE "none",
                            !.usage = call.value]
    /\ UNCHANGED <<wire, client, transports, result>>

\* client.base_url()
BaseUrl ==
    /\ client.constructed
    /\ last' = Last("base_url", NoConfig, NoOptions, NoRes, Returned)
    /\ sent' = << >>
    /\ ret' = [NoRet EXCEPT !.kind = "string", !.s = base_url(client.impl_)]
    /\ UNCHANGED <<wire, client, transports, result>>

\* A call of an accessor on the held result.
Access(op, threw, what, value, self) ==
    /\ result.exists
    /\ last' = Last(op, NoConfig, NoOptions, NoRes,
                    IF threw THEN Error(what) ELSE Returned)
    /\ sent' = << >>
    /\ ret' = IF threw THEN NoRet ELSE value
    /\ result' = self
    /\ UNCHANGED <<wire, client, transports>>

IsStored ==
    Access("is_stored", FALSE, "",
           [NoRet EXCEPT !.kind = "bool", !.b = is_stored(result)], result)
IsBytes ==
    Access("is_bytes", FALSE, "",
           [NoRet EXCEPT !.kind = "bool", !.b = is_bytes(result)], result)
Stored ==
    Access("stored", stored(result).threw, stored(result).what,
           [NoRet EXCEPT !.kind = "stored", !.stored = stored(result).v],
           result)
Bytes ==
    Access("bytes", bytes(result).threw, bytes(result).what,
           [NoRet EXCEPT !.kind = "bytes", !.bytes = bytes(result).v], result)
TakeBytes ==
    Access("take_bytes", take_bytes(result).threw, take_bytes(result).what,
           [NoRet EXCEPT !.kind = "bytes", !.bytes = take_bytes(result).v],
           take_bytes(result).self)
Url ==
    Access("url", url(result).threw, url(result).what,
           [NoRet EXCEPT !.kind = "string", !.s = url(result).v], result)
ExpiresAt ==
    Access("expires_at", expires_at(result).threw, expires_at(result).what,
           [NoRet EXCEPT !.kind = "string", !.s = expires_at(result).v],
           result)
Width ==
    Access("width", width(result).threw, width(result).what,
           [NoRet EXCEPT !.kind = "int", !.n = width(result).v], result)
Height ==
    Access("height", height(result).threw, height(result).what,
           [NoRet EXCEPT !.kind = "int", !.n = height(result).v], result)
SizeBytes ==
    Access("size_bytes", size_bytes(result).threw, size_bytes(result).what,
           [NoRet EXCEPT !.kind = "int", !.n = size_bytes(result).v], result)

Next ==
    \/ Serve
    \/ NewClientFromKey
    \/ NewClientFromConfig
    \/ Screenshot
    \/ GetUsage
    \/ BaseUrl
    \/ IsStored
    \/ IsBytes
    \/ Stored
    \/ Bytes
    \/ TakeBytes
    \/ Url
    \/ ExpiresAt
    \/ Width
    \/ Height
    \/ SizeBytes

Spec == Init /\ [][Next]_vars

\* The same program, driven over the grid of options and a few answers.
InitValidation == InitWith(FewAnswers)

ScreenshotGrid == ScreenshotWith(OptionsGrid)

NextValidation ==
    \/ Serve
    \/ NewClientFromKey
    \/ NewClientFromConfig
    \/ ScreenshotGrid

SpecValidation == InitValidation /\ [][NextValidation]_vars

-----------------------------------------------------------------------------
\* Properties.

ClientCalls == {"screenshot", "usage"}
Constructors == {"Client(api_key)", "Client(config)"}
StoreRequested(options) == options.store.has /\ options.store.v

\* The body is a JSON object that has each of the named members, as strings
\* (strs) and as numbers (nums).
HasMembers(doc, strs, nums) ==
    /\ doc.t = "object"
    /\ \A k \in strs : k \in DOMAIN doc.m /\ doc.m[k].t = "string"
    /\ \A k \in nums : k \in DOMAIN doc.m /\ doc.m[k].t = "number"

\* C1: every result screenshot() returns has exactly one of is_bytes() and
\* is_stored() true, never both and never neither.
C1_ExactlyOneVariant ==
    (last.op = "screenshot" /\ last.outcome.kind = "ok")
        => (is_bytes(result) # is_stored(result))

\* C2: a screenshot() call that fails with ValidationError has issued no
\* request: the transport was invoked zero times for that call.
C2_ValidationBeforeNetwork ==
    (last.op = "screenshot" /\ last.outcome.kind = "ValidationError")
        => (sent = << >> /\ ~last.res.asked)

C2_Witness ==
    /\ last.op = "screenshot"
    /\ last.outcome.kind = "ValidationError"
    /\ last.options.url = ""
    /\ wire.ok
    /\ sent = << >>

\* C3: screenshot(options) fails with ValidationError exactly when url is
\* empty, or quality is present and outside [0,100], or width is present and
\* <= 0, or height is present and <= 0; absent optional fields and the
\* boundary values 0, 100 and 1 pass.
C3_ValidationExactly ==
    last.op = "screenshot" =>
        ((last.outcome.kind = "ValidationError")
            <=> \/ last.options.url = ""
                \/ /\ last.options.quality.has
                   /\ last.options.quality.v \notin 0..100
                \/ last.options.width.has /\ last.options.width.v <= 0
                \/ last.options.height.has /\ last.options.height.v <= 0)

C3_Witness ==
    /\ last.op = "screenshot"
    /\ last.options.quality = OptInt(100)
    /\ last.options.width = OptInt(1)
    /\ last.options.height = OptInt(1)
    /\ last.outcome.kind = "ok"

\* C4: for every body B, HTTP 200 with Content-Type image/png and body B,
\* store not requested, gives a result with is_bytes() true, is_stored()
\* false and bytes() equal to B.
C4_BytesEqualBody ==
    (/\ last.op = "screenshot"
     /\ last.res.ok
     /\ last.res.status = 200
     /\ last.res.content_type = CtImagePng
     /\ ~StoreRequested(last.options))
        => /\ last.outcome.kind = "ok"
           /\ is_bytes(result)
           /\ ~is_stored(result)
           /\ ~bytes(result).threw
           /\ bytes(result).v = last.res.body

\* C5: with a status below 400, if store was requested or the Content-Type
\* contains application/json, and the body is a JSON object with url,
\* expires_at, width, height and size_bytes, the result is stored and its
\* five fields equal the body's; if neither condition holds the result is
\* the bytes variant.
C5_StoredOrBytes ==
    (last.op = "screenshot" /\ last.res.ok /\ last.res.status < 400) =>
        LET as_json == \/ StoreRequested(last.options)
                       \/ Contains(last.res.content_type, ApplicationJson)
            doc == JsonParse(last.res.body)
        IN  /\ (/\ as_json
                /\ HasMembers(doc, {"url", "expires_at"},
                              {"width", "height", "size_bytes"}))
                    => /\ last.outcome.kind = "ok"
                       /\ is_stored(result)
                       /\ result.stored_.v.url = doc.m["url"].s
                       /\ result.stored_.v.expires_at = doc.m["expires_at"].s
                       /\ result.stored_.v.width = doc.m["width"].n
                       /\ result.stored_.v.height = doc.m["height"].n
                       /\ result.stored_.v.size_bytes = doc.m["size_bytes"].n
            /\ ~as_json
                    => /\ last.outcome.kind = "ok"
                       /\ is_bytes(result)
                       /\ ~is_stored(result)

\* C6: for screenshot() and usage(), a status >= 400 whose body is a JSON
\* object with string code and message fails with ApiError carrying the
\* body's code; it is not turned into HttpError or the generic Error.
C6_ApiErrorCarriesCode ==
    (/\ last.op \in ClientCalls
     /\ last.res.ok
     /\ last.res.status >= 400
     /\ HasMembers(JsonParse(last.res.body), {"code", "message"}, {}))
        => /\ last.outcome.kind = "ApiError"
           /\ last.outcome.error_code = JsonParse(last.res.body).m["code"].s

C6_Witness ==
    /\ last.op = "screenshot"
    /\ last.res.status = 402
    /\ last.res.body = TextErrQuota
    /\ last.outcome.kind = "ApiError"
    /\ last.outcome.error_code = "quota_exceeded"

\* C7 as stated: for screenshot() and usage(), a status s >= 400 whose body
\* is not JSON, or does not contain the code and message fields, fails with
\* HttpError carrying status_code s.
C7_AbsenceDegrades ==
    (/\ last.op \in ClientCalls
     /\ last.res.ok
     /\ last.res.status >= 400
     /\ LET doc == JsonParse(last.res.body)
        IN  \/ doc.t # "object"
            \/ "code" \notin DOMAIN doc.m
            \/ "message" \notin DOMAIN doc.m)
        => /\ last.outcome.kind = "HttpError"
           /\ last.outcome.status_code = last.res.status

\* C7 as amended: a status s >= 400 fails with HttpError carrying s when the
\* body is not JSON, is JSON but not an object, or has a code or message
\* that is not a string; an object that only lacks code or message fails
\* with ApiError, whose error_code is "unknown" when code is absent.
C7_UnreadableDegrades ==
    (last.op \in ClientCalls /\ last.res.ok /\ last.res.status >= 400) =>
        LET doc == JsonParse(last.res.body)
            unreadable ==
                \/ doc.t # "object"
                \/ \E k \in {"code", "message"} :
                       k \in DOMAIN doc.m /\ doc.m[k].t # "string"
        IN  /\ unreadable
                => /\ last.outcome.kind = "HttpError"
                   /\ last.outcome.status_code = last.res.status
            /\ ~unreadable
                => /\ last.outcome.kind = "ApiError"
                   /\ last.outcome.error_code =
                        IF "code" \in DOMAIN doc.m THEN doc.m["code"].s
                        ELSE "unknown"

C7_Witness ==
    /\ last.op = "screenshot"
    /\ last.res.status = 500
    /\ last.res.body = <<137, 80>>
    /\ last.outcome.kind = "HttpError"
    /\ last.outcome.status_code = 500

\* C8: for screenshot() and usage(), a transport that fails to complete the
\* exchange gives HttpError with status_code 0 and no result, whatever the
\* store flag.
C8_TransportFailure ==
    (last.op \in ClientCalls /\ last.res.asked /\ ~last.res.ok)
        => /\ last.outcome.kind = "HttpError"
           /\ last.outcome.status_code = 0
           /\ last.op = "screenshot" => ~result.exists
           /\ ret.kind = "none"

C8_Witness ==
    /\ last.op = "screenshot"
    /\ StoreRequested(last.options)
    /\ last.res.asked
    /\ ~last.res.ok
    /\ last.outcome.kind = "HttpError"
    /\ ~result.exists

\* C9: bytes() and take_bytes() on a stored result, and stored() and the
\* accessors url, expires_at, width, height, size_bytes on a bytes result,
\* fail with the generic Error and leave the result as it was.
C9_WrongVariantAccess ==
    [][/\ (last'.op \in {"bytes", "take_bytes"} /\ is_stored(result))
            => (last'.outcome.kind = "Error" /\ result' = result)
       /\ (/\ last'.op \in {"stored", "url", "expires_at", "width", "height",
                            "size_bytes"}
           /\ is_bytes(result))
            => (last'.outcome.kind = "Error" /\ result' = result)]_vars

C9_Witness ==
    /\ last.op = "take_bytes"
    /\ is_stored(result)
    /\ last.outcome.kind = "Error"

\* C10: constructing a Client with an empty API key, by either constructor,
\* fails with ValidationError, creates no transport and leaves no client;
\* with a non-empty key it succeeds.
C10_EmptyKeyRejected ==
    last.op \in Constructors =>
        IF last.config.api_key = ""
        THEN /\ last.outcome.kind = "ValidationError"
             /\ ~client.constructed
             /\ ~client.impl_.http.made
             /\ transports = 0
        ELSE /\ last.outcome.kind = "ok"
             /\ client.constructed
             /\ client.impl_.config = last.config
             /\ transports = 1

C10_Witness ==
    /\ last.op = "Client(config)"
    /\ last.config.api_key = ""
    /\ last.outcome.kind = "ValidationError"
    /\ ~client.constructed

C12_UsageFieldsEqual ==
    (/\ last.op = "usage"
     /\ last.res.ok
     /\ last.res.status < 400
     /\ HasMembers(JsonParse(last.res.body), {"period_start", "period_end"},
                   {"screenshots_taken", "screenshots_limit",
                    "storage_bytes_used", "storage_bytes_limit"}))
        => LET doc == JsonParse(last.res.body)
           IN  /\ last.outcome.kind = "ok"
               /\ ret.kind = "usage"
               /\ ret.usage.screenshots_taken = doc.m["screenshots_taken"].n
               /\ ret.usage.screenshots_limit = doc.m["screenshots_limit"].n
               /\ ret.usage.storage_bytes_used = doc.m["storage_bytes_used"].n
               /\ ret.usage.storage_bytes_limit
                    = doc.m["storage_bytes_limit"].n
               /\ ret.usage.period_start = doc.m["period_start"].s
               /\ ret.usage.period_end = doc.m["period_end"].s

\* The members a stored-screenshot body and a usage body must have.
StoredSchema(doc) ==
    HasMembers(doc, {"url", "expires_at"}, {"width", "height", "size_bytes"})
UsageSchema(doc) ==
    HasMembers(doc, {"period_start", "period_end"},
               {"screenshots_taken", "screenshots_limit",
                "storage_bytes_used", "storage_bytes_limit"})
StoredMode(options, res) ==
    StoreRequested(options) \/ Contains(res.content_type, ApplicationJson)

\* C13: a response with a status below 400 whose body fails the expected
\* schema (not JSON, or a member missing or of the wrong type) gives the
\* generic Error and no value: for usage(), and for screenshot() in stored
\* mode, binary bytes answered to store=true included.
C13_SchemaFailureIsError ==
    (/\ last.op \in ClientCalls
     /\ last.res.ok
     /\ last.res.status < 400
     /\ \/ last.op = "usage" /\ ~UsageSchema(JsonParse(last.res.body))
        \/ /\ last.op = "screenshot"
           /\ StoredMode(last.options, last.res)
           /\ ~StoredSchema(JsonParse(last.res.body)))
        => /\ last.outcome.kind = "Error"
           /\ last.op = "screenshot" => ~result.exists
           /\ ret.kind = "none"

\* A client built afresh, to compare a call's outcome with.
FreshImpl ==
    Impl(ClientConfig("px_fresh", DefaultBaseUrl, DefaultTimeout, NoString))

\* C14: no call changes the client: once constructed its configuration stays
\* what the constructor was given, every request carries the Authorization
\* and User-Agent of that configuration, base_url() returns its base URL,
\* and the outcome of a call is the outcome a fresh client gives for the same
\* options and the same response, whatever was called before.
C14_CallsLeaveClientAlone ==
    [][/\ client.constructed => client' = client
       /\ (~client.constructed /\ client'.constructed)
            => /\ last'.op \in Constructors
               /\ client'.impl_.config = last'.config
       /\ \A i \in DOMAIN sent' :
            /\ sent'[i].headers.Authorization
                 = "Bearer " \o client'.impl_.config.api_key
            /\ sent'[i].headers.UserAgent
                 = (IF client'.impl_.config.user_agent.has
                    THEN client'.impl_.config.user_agent.v
                    ELSE "pxshot-cpp/1.0.0")
       /\ last'.op = "base_url"
            => ret'.s = client'.impl_.config.base_url
       /\ last'.op = "screenshot"
            => LET fresh == screenshot(FreshImpl, last'.options, last'.res)
               IN  /\ last'.outcome = fresh.outcome
                   /\ result' = fresh.result
       /\ last'.op = "usage"
            => LET fresh == usage(FreshImpl, last'.res)
               IN  /\ last'.outcome = fresh.outcome
                   /\ ret'.usage = fresh.value]_vars

\* An ApiError from usage() while the result of an earlier, successful
\* screenshot() is still held: calls with different outcomes in sequence.
C14_Witness ==
    /\ last.op = "usage"
    /\ last.outcome.kind = "ApiError"
    /\ result.exists
    /\ Len(sent) = 1
    /\ sent[1].headers.Authorization = "Bearer px_key"
    /\ sent[1].headers.UserAgent = "MyApp/1.0"

\* A result in neither variant: no stored record and no bytes.
Consumed(self) == self.exists /\ ~is_stored(self) /\ ~is_bytes(self)

\* C15: take_bytes() on a result holding non-empty bytes B returns exactly B
\* and leaves the result in neither variant; on such a result bytes() and
\* take_bytes() raise nothing and return the empty sequence, leaving it as it
\* is, and stored() raises the generic Error.  A step that leaves the wire
\* alone and sets last.op is a call of that accessor.
C15_TakeBytesConsumes ==
    [][/\ (/\ last'.op = "take_bytes" /\ wire' = wire
           /\ result.exists /\ is_bytes(result))
            => /\ last'.outcome = Returned
               /\ ret'.kind = "bytes"
               /\ ret'.bytes = result.bytes_
               /\ Consumed(result')
               /\ ~bytes(result').threw /\ bytes(result').v = << >>
               /\ ~take_bytes(result').threw
               /\ take_bytes(result').v = << >>
               /\ stored(result').threw
       /\ (/\ last'.op \in {"bytes", "take_bytes"} /\ wire' = wire
           /\ Consumed(result))
            => /\ last'.outcome = Returned
               /\ ret'.kind = "bytes"
               /\ ret'.bytes = << >>
               /\ result' = result
       /\ (last'.op = "stored" /\ wire' = wire /\ Consumed(result))
            => /\ last'.outcome.kind = "Error"
               /\ ret' = NoRet
               /\ result' = result]_vars

\* take_bytes() has returned the bytes of the body and emptied the result.
C15_Witness ==
    /\ last.op = "take_bytes"
    /\ last.outcome = Returned
    /\ ret.kind = "bytes"
    /\ ret.bytes # << >>
    /\ Consumed(result)
====
